---- MODULE Spec2Model ----
(***************************************************************************)
(* Flower shop API: the order-placement transaction of routes/shop.js      *)
(* (customer self-service) and routes/orders.js (staff), the catalog       *)
(* operations of routes/flowers.js that write the same flower rows, and    *)
(* the Sequelize models they persist.                                      *)
(*                                                                         *)
(* A request handler runs on Node's single thread: the code between two    *)
(* awaits is one atomic step, and every await of a database call is a      *)
(* point where other requests run.  One action models one awaited database *)
(* call together with the synchronous code that follows it.                *)
(*                                                                         *)
(* The database is modelled as committed rows plus, per open transaction,  *)
(* the rows it has written (visible to itself only, applied at commit,     *)
(* dropped at rollback), with row locks on written flower rows and on rows *)
(* read with `lock` (SELECT ... FOR UPDATE), held to the end of the         *)
(* transaction.  Money is kept in cents (DECIMAL(10,2) columns).           *)
(***************************************************************************)
EXTENDS Integers, Sequences, FiniteSets, TLC

\* ---------------------------------------------------------------- bounds
NCalls == 2
MaxCatalogOps == 2
MaxFaults == 1
MaxOrderOps == 2
MaxCustomerOps == 2

Calls == 1..NCalls
NoCall == 0

\* ---------------------------------------------------------------- inputs
Item(f, q) == [flowerId |-> f, quantity |-> q]

\* Flower ids 1 and 2 exist at start, 3 is created by POST /flowers, and 0
\* stands for an entry whose flowerId is absent (Number(undefined) is NaN).
Carts ==
    { <<Item(1, 1)>>,
      <<Item(1, 2)>>,
      <<Item(1, 1), Item(1, 1)>>,
      <<Item(1, 2), Item(1, 1)>>,
      <<Item(1, 1), Item(2, 1)>>,
      <<Item(2, 1), Item(1, 1)>>,
      <<Item(1, 1), Item(2, 1), Item(1, 1)>>,
      <<Item(1, 1), Item(2, 2)>>,
      <<Item(1, 1), Item(3, 1)>>,
      <<Item(1, 1), Item(0, 1)>>,
      <<Item(2, -1)>>,
      << >> }

Jane == "jane@example.com"
John == "john@example.com"
New == "new@example.com"
Emails == {Jane, John, New, ""}

\* req.body.fulfilment: absent, or the string sent.
Omitted == "omitted"

ShopRequestWith(cart, phone, email, fulfilment) ==
    [cart |-> cart, phone |-> phone, email |-> email,
     fulfilment |-> fulfilment]

ShopRequest(cart, phone, email) == ShopRequestWith(cart, phone, email, Omitted)

\* The bodies of POST /shop/orders: every cart for a customer with a
\* profile; a body without contactPhone; a principal without email; a
\* principal with no profile and one with a soft-deleted profile, each with
\* a cart that succeeds and one that fails at its second item.
ShopRequests ==
    { ShopRequest(cart, TRUE, Jane) : cart \in Carts }
    \cup { ShopRequest(<<Item(1, 1)>>, FALSE, Jane),
           ShopRequest(<<Item(1, 1)>>, TRUE, "") }
    \cup { ShopRequest(cart, TRUE, e) :
             cart \in { <<Item(1, 1)>>, <<Item(1, 1), Item(2, 2)>> },
             e \in {New, John} }
    \cup { ShopRequestWith(<<Item(1, 1)>>, TRUE, Jane, f) :
             f \in {"delivery", "courier"} }

StaffRequest(cart, customerId) == [cart |-> cart, customerId |-> customerId]

\* The bodies of POST /orders: every cart for the active customer 1; a body
\* without customerId (0), one naming the soft-deleted customer 2.
StaffRequests ==
    { StaffRequest(cart, 1) : cart \in Carts }
    \cup { StaffRequest(<<Item(1, 1)>>, k) : k \in {0, 2} }

\* ---------------------------------------------------------------- state
VARIABLES
    flowers,     \* committed flowers rows: id -> [stock, price, active]
    customers,   \* committed customers rows: id -> [email, active]
    orders,      \* committed orders rows: id -> [customerId, status, total]
    items,       \* committed order_items rows
    seq,         \* autoincrement counters: [order, customer, flower]
    tx,          \* per call: the transaction's state and uncommitted writes
    lock,        \* flower id -> the call whose transaction holds the row lock
    elock,       \* email -> the call whose transaction holds the unique-key lock
    call,        \* per call: the handler's position and local variables
    restock,     \* the restock handler between its read and its write
    orderOp,     \* the status / delete handler between its read and its write
    custOp,      \* the customer create / delete handler, likewise
    view,        \* the last read handler (order lookups, catalog reads)
    ops,         \* catalog, order and customer operations done so far
    faults,      \* database calls that have thrown so far
    hist         \* history: each flower's first stock, and the flowers whose
                 \* stock a catalog operation has written since

vars == <<flowers, customers, orders, items, seq, tx, lock, elock, call,
          restock, orderOp, custOp, view, ops, faults, hist>>

dbVars == <<flowers, customers, orders, items>>

\* ---------------------------------------------------------------- helpers
\* A function with the entry k -> v added or replaced.
Put(f, k, v) == [x \in DOMAIN f \cup {k} |-> IF x = k THEN v ELSE f[x]]

NoTx == [state |-> "none", stock |-> << >>, order |-> << >>, items |-> {},
         cust |-> << >>]

\* What a response's JSON carries besides its message class; `fin` of a call
\* counts its invocations of t.commit() and t.rollback(), `logs` its
\* logger.warn and logger.error events.
NoBody == [msg |-> "none"]

IdleCall ==
    [pc |-> "idle", path |-> "none", cart |-> << >>, email |-> "",
     customerId |-> 0, phone |-> FALSE, merged |-> << >>, i |-> 0,
     orderId |-> 0, total |-> 0, snap |-> << >>, err |-> "none",
     out |-> "none", body |-> NoBody, fin |-> 0, fulfilment |-> Omitted,
     logs |-> 0]

\* The HTTP status each response carries (0: no response was sent).
Status(out) ==
    CASE out = "created" -> 201
      [] out \in {"items_required", "phone_required", "invalid_item",
                  "unavailable", "insufficient", "invalid_customer",
                  "validation_error", "bad_request"} -> 400
      [] out = "server_error" -> 500
      [] OTHER -> 0

\* The flower ids a cart names.
CartFlowers(cart) == {cart[k].flowerId : k \in 1..Len(cart)}

\* shop.js: an entry is refused when `!fid || qty < 1`.
InvalidEntry(raw) == raw.flowerId = 0 \/ raw.quantity < 1

\* Variant: every entry becomes a line of its own (no merge).
MergeSetAppend(merged, raw) == Append(merged, raw)

\* shop.js: merged.set(fid, (merged.get(fid) || 0) + qty); a Map keeps the
\* order of first insertion.
MergeSet(merged, raw) ==
    IF \E k \in 1..Len(merged) : merged[k].flowerId = raw.flowerId
    THEN [k \in 1..Len(merged) |->
            IF merged[k].flowerId = raw.flowerId
            THEN Item(raw.flowerId, merged[k].quantity + raw.quantity)
            ELSE merged[k]]
    ELSE Append(merged, raw)

\* shop.js: the normalisation loop; it stops at the first refused entry.
RECURSIVE Normalise(_, _)
Normalise(cart, merged) ==
    IF cart = << >> THEN [ok |-> TRUE, merged |-> merged]
    ELSE IF InvalidEntry(Head(cart)) THEN [ok |-> FALSE, merged |-> merged]
    ELSE Normalise(Tail(cart), MergeSet(merged, Head(cart)))

\* Variant: the loop iterates from the last entry to the first.
LoopItemsReversed(path, cart) ==
    LET list == IF path = "shop" THEN Normalise(cart, << >>).merged ELSE cart
    IN  [k \in 1..Len(list) |-> list[Len(list) + 1 - k]]

\* The list the reservation loop iterates: the merged map on the customer
\* path, the request's items as sent on the staff path.
LoopItems(path, cart) ==
    IF path = "shop" THEN Normalise(cart, << >>).merged ELSE cart

\* Variant: the read ignores isActive.
FindFlowerAny(c, f) ==
    IF f \in DOMAIN flowers
    THEN << [stock |-> IF f \in DOMAIN tx[c].stock THEN tx[c].stock[f]
                       ELSE flowers[f].stock,
             price |-> flowers[f].price] >>
    ELSE << >>

\* Flower.findByPk inside transaction c: the model's default scope keeps
\* active rows only; the transaction sees its own uncommitted stock.
FindFlower(c, f) ==
    IF f \in DOMAIN flowers /\ flowers[f].active
    THEN << [stock |-> IF f \in DOMAIN tx[c].stock THEN tx[c].stock[f]
                       ELSE flowers[f].stock,
             price |-> flowers[f].price] >>
    ELSE << >>

\* The `name` column of flower f (not unique, not the id).
FlowerName(f) == <<"flower", f>>

\* The two checks of the reservation loop on the row that was read.
CheckFlower(found, q) ==
    IF found = << >> THEN "unavailable"
    ELSE IF found[1].stock < q THEN "insufficient"
    ELSE "ok"

\* Whether the read of flower f takes the row lock (`lock` option).
LockingRead(path) == path = "staff"

\* A row lock is free for c when nobody else holds it.
Free(c, f) == f \notin DOMAIN lock \/ lock[f] \in {NoCall, c}

\* Variant: the end of a transaction leaves its row locks in place.
ReleaseLocksNone(c) == lock

ReleaseLocks(c) == [f \in DOMAIN lock |-> IF lock[f] = c THEN NoCall ELSE lock[f]]
ReleaseELocks(c) == [e \in DOMAIN elock |-> IF elock[e] = c THEN NoCall ELSE elock[e]]

\* Variant: the lookup runs under the default scope (active rows only).
ByEmailScoped(e) ==
    {k \in DOMAIN customers : customers[k].email = e /\ customers[k].active}

\* Customer.unscoped().findOne({ where: { email } }) on committed rows.
ByEmail(e) == {k \in DOMAIN customers : customers[k].email = e}

\* The restock handler: its position, its request (flower id, delta), the
\* stock it computed and the HTTP status of its last response.
\* The status / delete handler: its position, its request (order id,
\* status), the status of the order it read and the HTTP status of its last
\* response.
NoRestock == [pc |-> "idle", id |-> 0, delta |-> 0, newStock |-> 0, out |-> 0]

NoOrderOp ==
    [pc |-> "idle", id |-> 0, status |-> "none", was |-> "none", out |-> 0]

\* The customer create / delete handler: its position, its request (kind,
\* customer id, email) and the HTTP status of its last response.
NoCustOp == [pc |-> "idle", kind |-> "none", id |-> 0, email |-> "", out |-> 0]

\* A read handler (the customer's order lookups, the public catalog reads):
\* its position, its request (list or single row, the principal's email,
\* the id asked for), the profile it found, the HTTP status of its last
\* response and the rows in that response.
NoView == [pc |-> "idle", kind |-> "none", email |-> "", id |-> 0,
           customer |-> 0, out |-> 0, body |-> {}]

\* ---------------------------------------------------------------- Init
Init ==
    /\ flowers = (1 :> [stock |-> 2, price |-> 990, active |-> TRUE])
              @@ (2 :> [stock |-> 1, price |-> 250, active |-> TRUE])
    /\ customers = (1 :> [email |-> Jane, active |-> TRUE])
                @@ (2 :> [email |-> John, active |-> FALSE])
    /\ orders = << >>
    /\ items = {}
    /\ seq = [order |-> 0, customer |-> 2, flower |-> 2]
    /\ tx = [c \in Calls |-> NoTx]
    /\ lock = [f \in {1, 2} |-> NoCall]
    /\ elock = [e \in Emails \ {""} |-> NoCall]
    /\ call = [c \in Calls |-> IdleCall]
    /\ restock = NoRestock
    /\ orderOp = NoOrderOp
    /\ custOp = NoCustOp
    /\ view = NoView
    /\ ops = 0
    /\ faults = 0
    /\ hist = [stock0 |-> (1 :> 2) @@ (2 :> 1), adjusted |-> {}]

\* ---------------------------------------------------------------- placeOrder
Set(c, rec) == call' = [call EXCEPT ![c] = rec]

\* A call may start once the calls before it have started (the calls are
\* interchangeable; this only drops mirrored runs).
MayBegin(c) ==
    call[c].pc = "idle" /\ (IF c = 1 THEN TRUE ELSE call[c - 1].pc # "idle")

\* POST /shop/orders up to its first query: the request checks, the
\* transaction, and the email check of getOrCreateCustomerProfile.
ShopBegin(c) ==
    /\ MayBegin(c)
    /\ \E req \in ShopRequests :
        LET cart == req.cart
            phone == req.phone
            email == req.email
            r == [call[c] EXCEPT !.path = "shop", !.cart = cart,
                                 !.email = email, !.phone = phone,
                                 !.fulfilment = req.fulfilment]
        IN  IF cart = << >>
            THEN /\ Set(c, [r EXCEPT !.pc = "done", !.out = "items_required",
                                     !.logs = @ + 1])
                 /\ UNCHANGED tx
            ELSE IF ~phone
            THEN /\ Set(c, [r EXCEPT !.pc = "done", !.out = "phone_required",
                                     !.logs = @ + 1])
                 /\ UNCHANGED tx
            ELSE /\ tx' = [tx EXCEPT ![c].state = "open"]
                 /\ IF email = ""
                    THEN Set(c, [r EXCEPT !.pc = "catch", !.err = "status400",
                                         !.logs = @ + 1])
                    ELSE Set(c, [r EXCEPT !.pc = "profile"])
    /\ UNCHANGED <<view, custOp, dbVars, seq, lock, elock, restock, orderOp, ops, faults, hist>>

\* getOrCreateCustomerProfile: Customer.unscoped().findOrCreate by email,
\* and the update that reactivates a soft-deleted profile.
\* Variant: customers.email has no unique key, nothing waits.
EmailFreeAlways(c, e) == TRUE

\* The unique key on customers.email: a statement on email e waits while
\* another transaction holds an uncommitted row with it.
EmailFree(c, e) == elock[e] \in {NoCall, c}

ShopProfile(c) ==
    /\ call[c].pc = "profile"
    /\ EmailFree(c, call[c].email)
    /\ LET e == call[c].email
           found == ByEmail(e)
       IN  IF found = {}
           THEN /\ seq' = [seq EXCEPT !.customer = @ + 1]
                /\ tx' = [tx EXCEPT ![c].cust =
                            << [id |-> seq.customer + 1, email |-> e,
                                active |-> TRUE] >>]
                /\ elock' = [elock EXCEPT ![e] = c]
                /\ Set(c, [call[c] EXCEPT !.pc = "order",
                                          !.customerId = seq.customer + 1])
           ELSE LET k == CHOOSE k \in found : TRUE
                IN  /\ IF customers[k].active
                       THEN UNCHANGED <<tx, elock>>
                       ELSE /\ tx' = [tx EXCEPT ![c].cust =
                                        << [id |-> k, email |-> e,
                                            active |-> TRUE] >>]
                            /\ elock' = [elock EXCEPT ![e] = c]
                    /\ Set(c, [call[c] EXCEPT !.pc = "order", !.customerId = k])
                    /\ UNCHANGED seq
    /\ UNCHANGED <<view, custOp, dbVars, lock, restock, orderOp, ops, faults, hist>>

\* POST /orders up to its first query: the request check and the transaction.
StaffBegin(c) ==
    /\ MayBegin(c)
    /\ \E req \in StaffRequests :
        LET cart == req.cart
            customerId == req.customerId
            r == [call[c] EXCEPT !.path = "staff", !.cart = cart,
                                 !.customerId = customerId]
        IN  IF customerId = 0 \/ cart = << >>
            THEN /\ Set(c, [r EXCEPT !.pc = "done", !.out = "items_required",
                                     !.logs = @ + 1])
                 /\ UNCHANGED tx
            ELSE /\ tx' = [tx EXCEPT ![c].state = "open"]
                 /\ Set(c, [r EXCEPT !.pc = "customer"])
    /\ UNCHANGED <<view, custOp, dbVars, seq, lock, elock, restock, orderOp, ops, faults, hist>>

\* Customer.findByPk(customerId) under the default scope (active rows).
StaffCustomer(c) ==
    /\ call[c].pc = "customer"
    /\ LET k == call[c].customerId
       IN  IF k \in DOMAIN customers /\ customers[k].active
           THEN Set(c, [call[c] EXCEPT !.pc = "order"])
           ELSE Set(c, [call[c] EXCEPT !.pc = "abort", !.out = "invalid_customer"])
    /\ UNCHANGED <<view, custOp, dbVars, seq, tx, lock, elock, restock, orderOp, ops, faults, hist>>

\* shop.js: fulfilment === 'delivery' ? 'delivery' : 'pickup', kept in the
\* order's notes; the staff path's notes carry no fulfilment.
Fulfil(r) ==
    IF r.path # "shop" THEN "none"
    ELSE IF r.fulfilment = "delivery" THEN "delivery" ELSE "pickup"

\* Order.create({ customerId, status: 'pending', total: 0 }) in the
\* transaction, then (customer path) the normalisation loop.
OrderCreate(c) ==
    /\ call[c].pc = "order"
    /\ seq' = [seq EXCEPT !.order = @ + 1]
    /\ tx' = [tx EXCEPT ![c].order =
                << [customerId |-> call[c].customerId, status |-> "pending",
                    total |-> 0, fulfilment |-> Fulfil(call[c])] >>]
    /\ LET r == [call[c] EXCEPT !.orderId = seq.order + 1, !.total = 0]
       IN  IF r.path = "shop" /\ ~Normalise(r.cart, << >>).ok
           THEN Set(c, [r EXCEPT !.pc = "abort", !.out = "invalid_item"])
           ELSE Set(c, [r EXCEPT !.pc = "read", !.i = 1,
                                 !.merged = LoopItems(r.path, r.cart)])
    /\ UNCHANGED <<view, custOp, dbVars, lock, elock, restock, orderOp, ops, faults, hist>>

\* Flower.findByPk(flowerId, { transaction }) and the code up to
\* OrderItem.create: the two checks, the price snapshot, the running total.
\* The staff path reads with `lock: true` and so waits for the row lock.
\* Variant: the line's quantity is left out of the total.
LineTotalUnit(price, q) == price

LineTotal(price, q) == price * q

\* The JSON of the two refusals of the loop: { msg: `Flower ${flowerId}
\* unavailable` } (orders.js: `Flower ID ${flowerId} not found`) and
\* { msg: `Insufficient stock for ${flower.name}` }.
RefusalBody(chk, f) ==
    IF chk = "unavailable" THEN [msg |-> chk, flowerId |-> f]
    ELSE [msg |-> chk, name |-> FlowerName(f)]

ReadFlower(c) ==
    /\ call[c].pc = "read"
    /\ LET it == call[c].merged[call[c].i]
           found == FindFlower(c, it.flowerId)
           chk == CheckFlower(found, it.quantity)
           locking == LockingRead(call[c].path) /\ found # << >>
       IN  /\ locking => Free(c, it.flowerId)
           /\ lock' = IF locking THEN Put(lock, it.flowerId, c) ELSE lock
           /\ IF chk = "ok"
              THEN Set(c, [call[c] EXCEPT
                              !.pc = "item", !.snap = found,
                              !.total = @ + LineTotal(found[1].price, it.quantity)])
              ELSE Set(c, [call[c] EXCEPT
                              !.pc = "abort", !.out = chk,
                              !.body = RefusalBody(chk, it.flowerId)])
    /\ UNCHANGED <<view, custOp, dbVars, seq, tx, elock, restock, orderOp, ops, faults, hist>>

\* OrderItem.create({ orderId, flowerId, quantity, price }, { transaction }):
\* (orderId, flowerId) is the primary key, a second row for it is refused
\* with SequelizeUniqueConstraintError.
\* Variant: order_items has no key on (order_id, flower_id).
KeyTakenNever(rows, o, f) == FALSE

\* Whether a row with the primary key (o, f) is among the rows.
KeyTaken(rows, o, f) == \E r \in rows : r.orderId = o /\ r.flowerId = f

CreateItem(c) ==
    /\ call[c].pc = "item"
    /\ LET it == call[c].merged[call[c].i]
       IN  IF KeyTaken(tx[c].items, call[c].orderId, it.flowerId)
           THEN /\ Set(c, [call[c] EXCEPT !.pc = "catch", !.err = "validation"])
                /\ UNCHANGED tx
           ELSE /\ tx' = [tx EXCEPT ![c].items = @ \cup
                            { [orderId |-> call[c].orderId,
                               flowerId |-> it.flowerId,
                               quantity |-> it.quantity,
                               price |-> call[c].snap[1].price] }]
                /\ Set(c, [call[c] EXCEPT !.pc = "stock"])
    /\ UNCHANGED <<view, custOp, dbVars, seq, lock, elock, restock, orderOp, ops, faults, hist>>

\* flower.update({ stock: flower.stock - q }, { transaction }): the new stock
\* is computed from the row as it was read.
NewStock(snap, q) == snap.stock - q

\* Variant: the update is issued without `{ transaction }` and commits on
\* its own.
StockWriteThrough(c, f, v) ==
    [flowers |-> [flowers EXCEPT ![f].stock = v], pending |-> tx[c].stock]

\* Where a write of transaction c to flower f's stock lands: in the
\* transaction's own writes, the committed row untouched.
StockWrite(c, f, v) ==
    [flowers |-> flowers, pending |-> Put(tx[c].stock, f, v)]

UpdateStock(c) ==
    /\ call[c].pc = "stock"
    /\ LET it == call[c].merged[call[c].i]
           w == StockWrite(c, it.flowerId,
                           NewStock(call[c].snap[1], it.quantity))
       IN  /\ Free(c, it.flowerId)
           /\ lock' = Put(lock, it.flowerId, c)
           /\ flowers' = w.flowers
           /\ tx' = [tx EXCEPT ![c].stock = w.pending]
           /\ Set(c, [call[c] EXCEPT
                         !.i = @ + 1,
                         !.pc = IF call[c].i < Len(call[c].merged)
                                THEN "read" ELSE "total"])
    /\ UNCHANGED <<view, custOp, customers, orders, items, seq, elock, restock, orderOp, ops, faults, hist>>

\* order.update({ total }, { transaction }).
UpdateTotal(c) ==
    /\ call[c].pc = "total"
    /\ tx' = [tx EXCEPT ![c].order = << [@[1] EXCEPT !.total = call[c].total] >>]
    /\ Set(c, [call[c] EXCEPT !.pc = "commit"])
    /\ UNCHANGED <<view, custOp, dbVars, seq, lock, elock, restock, orderOp, ops, faults, hist>>

\* The committed rows once transaction c's writes are applied.
Applied(c) ==
    [flowers |-> [f \in DOMAIN flowers |->
                    IF f \in DOMAIN tx[c].stock
                    THEN [flowers[f] EXCEPT !.stock = tx[c].stock[f]]
                    ELSE flowers[f]],
     customers |-> IF tx[c].cust = << >> THEN customers
                   ELSE Put(customers, tx[c].cust[1].id,
                            [email |-> tx[c].cust[1].email,
                             active |-> tx[c].cust[1].active]),
     orders |-> IF tx[c].order = << >> THEN orders
                ELSE Put(orders, call[c].orderId, tx[c].order[1]),
     items |-> items \cup tx[c].items]

\* t.commit(): every write of the transaction becomes visible at once and
\* its locks are released.
Commit(c) ==
    /\ call[c].pc = "commit"
    /\ flowers' = Applied(c).flowers
    /\ customers' = Applied(c).customers
    /\ orders' = Applied(c).orders
    /\ items' = Applied(c).items
    /\ tx' = [tx EXCEPT ![c] = [NoTx EXCEPT !.state = "commit"]]
    /\ lock' = ReleaseLocks(c)
    /\ elock' = ReleaseELocks(c)
    /\ Set(c, [call[c] EXCEPT !.pc = "refetch", !.fin = @ + 1])
    /\ UNCHANGED <<view, custOp, seq, restock, orderOp, ops, faults, hist>>

\* Order.findByPk(id) outside any transaction: the committed row, or null.
FindOrder(id) == IF id \in DOMAIN orders THEN <<orders[id]>> ELSE << >>

\* Order.findByPk(order.id, { include: Flower }) and the 201 response, whose
\* body is the row as it is read now (res.status(201).json(full)).
Refetch(c) ==
    /\ call[c].pc = "refetch"
    /\ Set(c, [call[c] EXCEPT
                  !.pc = "done", !.out = "created",
                  !.body = [msg |-> "created",
                            order |-> FindOrder(call[c].orderId)]])
    /\ UNCHANGED <<view, custOp, dbVars, seq, tx, lock, elock, restock, orderOp, ops, faults, hist>>

\* The early exits of the try block: `await t.rollback()`, then
\* logger.warn and the 400 response already chosen.
Abort(c) ==
    /\ call[c].pc = "abort"
    /\ tx' = [tx EXCEPT ![c] = [NoTx EXCEPT !.state = "rollback"]]
    /\ lock' = ReleaseLocks(c)
    /\ elock' = ReleaseELocks(c)
    /\ Set(c, [call[c] EXCEPT !.pc = "done", !.fin = @ + 1, !.logs = @ + 1])
    /\ UNCHANGED <<view, custOp, dbVars, seq, restock, orderOp, ops, faults, hist>>

\* An awaited database call throws (connection loss, lock wait timeout,
\* SQLITE_BUSY).  A commit or rollback that throws leaves the Sequelize
\* transaction finished and the database without the transaction's writes.
AwaitsDb(c) ==
    call[c].pc \in {"profile", "customer", "order", "read", "item", "stock",
                    "total", "commit", "refetch", "abort"}

Fault(c) ==
    /\ AwaitsDb(c)
    /\ faults < MaxFaults
    /\ faults' = faults + 1
    /\ IF call[c].pc \in {"commit", "abort"}
       THEN /\ tx' = [tx EXCEPT ![c] =
                        [NoTx EXCEPT !.state = IF call[c].pc = "commit"
                                               THEN "commit" ELSE "rollback"]]
            /\ lock' = ReleaseLocks(c)
            /\ elock' = ReleaseELocks(c)
       ELSE UNCHANGED <<tx, lock, elock>>
    /\ Set(c, [call[c] EXCEPT
                  !.pc = "catch", !.err = "other", !.out = "none",
                  !.body = NoBody,
                  !.fin = IF call[c].pc \in {"commit", "abort"} THEN @ + 1
                          ELSE @])
    /\ UNCHANGED <<view, custOp, dbVars, seq, restock, orderOp, ops, hist>>

\* The catch block.  shop.js: `await t.rollback().catch(() => {})`, then 400
\* for a Sequelize validation error, err.status when set, 500 otherwise.
\* orders.js: `await transaction.rollback()`, then 500; rollback() of a
\* finished transaction throws, and nothing catches it: no response is sent.
\* Variant: the catch block does not look at err.status.
CatchOutNoStatus(path, err, finished) ==
    IF path = "shop"
    THEN CASE err = "validation" -> "validation_error"
           [] OTHER -> "server_error"
    ELSE IF finished THEN "no_response" ELSE "server_error"

CatchOut(path, err, finished) ==
    IF path = "shop"
    THEN CASE err = "validation" -> "validation_error"
           [] err = "status400" -> "bad_request"
           [] OTHER -> "server_error"
    ELSE IF finished THEN "no_response" ELSE "server_error"

\* The log events of the catch block: one in shop.js (warn or error); in
\* orders.js logger.error comes after `await transaction.rollback()` and is
\* not reached when that throws.
CatchLogs(path, finished) ==
    IF path = "shop" THEN 1 ELSE IF finished THEN 0 ELSE 1

Catch(c) ==
    /\ call[c].pc = "catch"
    /\ tx' = [tx EXCEPT ![c] =
                [NoTx EXCEPT !.state = IF tx[c].state = "open" THEN "rollback"
                                       ELSE tx[c].state]]
    /\ lock' = ReleaseLocks(c)
    /\ elock' = ReleaseELocks(c)
    /\ Set(c, [call[c] EXCEPT
                  !.pc = "done", !.fin = @ + 1,
                  !.logs = @ + CatchLogs(call[c].path, tx[c].state # "open"),
                  !.out = CatchOut(call[c].path, call[c].err,
                                   tx[c].state # "open")])
    /\ UNCHANGED <<view, custOp, dbVars, seq, restock, orderOp, ops, faults, hist>>

\* ---------------------------------------------------------------- deadlock
\* The row whose lock call c is waiting for (0: it is not waiting): a read
\* with `lock`, or the UPDATE of a flower's stock, of a row another
\* transaction holds.
WaitsFor(c) ==
    LET f == call[c].merged[call[c].i].flowerId
    IN  IF call[c].pc = "read"
        THEN IF /\ LockingRead(call[c].path)
                /\ FindFlower(c, f) # << >>
                /\ ~Free(c, f)
             THEN f ELSE 0
        ELSE IF call[c].pc = "stock" /\ ~Free(c, f)
        THEN f ELSE 0

\* The call that holds the lock c is waiting for.
Holder(c) == IF WaitsFor(c) = 0 THEN NoCall ELSE lock[WaitsFor(c)]

\* Call `from` waits, directly or through at most n others, for call `to`.
RECURSIVE Reaches(_, _, _)
Reaches(from, to, n) ==
    /\ n > 0
    /\ Holder(from) # NoCall
    /\ (Holder(from) = to \/ Reaches(Holder(from), to, n - 1))

Deadlocked(c) == Reaches(c, c, NCalls)

\* The database ends a deadlock by failing the statement of one of the
\* transactions in the cycle: the awaited call rejects and the handler goes
\* to its catch block.
DeadlockVictim(c) ==
    /\ Deadlocked(c)
    /\ Set(c, [call[c] EXCEPT !.pc = "catch", !.err = "deadlock",
                              !.out = "none", !.body = NoBody])
    /\ UNCHANGED <<view, custOp, dbVars, seq, tx, lock, elock, restock, orderOp,
                   ops, faults, hist>>

\* ---------------------------------------------------------------- catalog
\* The catalog handlers run outside any transaction: each query commits on
\* its own, and a write waits for the row lock of an open transaction.
NewFlowers == { [price |-> 0, stock |-> 1], [price |-> 450, stock |-> 1],
                [price |-> 450, stock |-> -1] }

UpdateBodies == { ("price" :> 1250), ("stock" :> -1), ("stock" :> 3) }

Deltas == {-3, -1, 1}

\* Flower.findByPk(id) of the catalog handlers: default scope, active rows.
ActiveFlower(id) == id \in DOMAIN flowers /\ flowers[id].active

NoteAdjusted(id) == hist' = [hist EXCEPT !.adjusted = @ \cup {id}]

\* POST /flowers: 400 when name or price is missing (a price of 0 is falsy);
\* otherwise Flower.create with `stock: stock || 0`.
FlowerCreate ==
    /\ ops < MaxCatalogOps
    /\ ops' = ops + 1
    /\ \E body \in NewFlowers :
        IF body.price = 0
        THEN UNCHANGED <<flowers, seq, lock, hist>>
        ELSE LET id == seq.flower + 1
             IN  /\ flowers' = Put(flowers, id,
                                   [stock |-> body.stock, price |-> body.price,
                                    active |-> TRUE])
                 /\ seq' = [seq EXCEPT !.flower = id]
                 /\ lock' = Put(lock, id, NoCall)
                 /\ hist' = [hist EXCEPT !.stock0 = Put(@, id, body.stock)]
    /\ UNCHANGED <<view, custOp, customers, orders, items, tx, elock, call, orderOp, restock, faults>>

\* instance.update(body): the columns the body names are overwritten.
Overwrite(row, body) ==
    [k \in DOMAIN row |-> IF k \in DOMAIN body THEN body[k] ELSE row[k]]

\* Variant: a new price is also written to the flower's order items.
UpdatedRowsRepriced(id, body) ==
    [flowers |-> [flowers EXCEPT ![id] = Overwrite(@, body)],
     orders |-> orders,
     items |-> { IF r.flowerId = id /\ "price" \in DOMAIN body
                 THEN [r EXCEPT !.price = body["price"]] ELSE r : r \in items }]

\* The rows PUT /flowers/:id leaves behind: the flower's row overwritten,
\* no order or order item touched.
UpdatedRows(id, body) ==
    [flowers |-> [flowers EXCEPT ![id] = Overwrite(@, body)],
     orders |-> orders,
     items |-> items]

\* PUT /flowers/:id: 404 unless the flower is active, then
\* flower.update(req.body).
FlowerUpdate ==
    /\ ops < MaxCatalogOps
    /\ ops' = ops + 1
    /\ \E id \in 1..(seq.flower + 1), body \in UpdateBodies :
        IF ActiveFlower(id)
        THEN /\ lock[id] = NoCall
             /\ flowers' = UpdatedRows(id, body).flowers
             /\ orders' = UpdatedRows(id, body).orders
             /\ items' = UpdatedRows(id, body).items
             /\ IF "stock" \in DOMAIN body THEN NoteAdjusted(id)
                ELSE UNCHANGED hist
        ELSE UNCHANGED <<flowers, orders, items, hist>>
    /\ UNCHANGED <<view, custOp, customers, seq, tx, lock, elock, call, orderOp, restock, faults>>

\* DELETE /flowers/:id: 404 unless the flower is active, then
\* flower.update({ isActive: false }).
FlowerDeactivate ==
    /\ ops < MaxCatalogOps
    /\ ops' = ops + 1
    /\ \E id \in 1..(seq.flower + 1) :
        IF ActiveFlower(id)
        THEN /\ lock[id] = NoCall
             /\ flowers' = [flowers EXCEPT ![id].active = FALSE]
        ELSE UNCHANGED flowers
    /\ UNCHANGED <<view, custOp, customers, orders, items, seq, tx, lock, elock, call, orderOp,
                   restock, faults, hist>>

\* Variant: the delta is taken as the new stock.
AdjustedTo(stock, delta) == delta

\* flowers.js: newStock = flower.stock + Number(delta || 0).
Adjusted(stock, delta) == stock + delta

\* POST /flowers/:id/restock, first half: Flower.findByPk, newStock =
\* flower.stock + delta, 400 when that is negative.
RestockRead ==
    /\ restock.pc = "idle"
    /\ ops < MaxCatalogOps
    /\ ops' = ops + 1
    /\ \E id \in 1..(seq.flower + 1), delta \in Deltas :
        LET req == [NoRestock EXCEPT !.id = id, !.delta = delta]
        IN  IF ~ActiveFlower(id)
            THEN restock' = [req EXCEPT !.out = 404]
            ELSE LET newStock == Adjusted(flowers[id].stock, delta)
                 IN  IF newStock < 0
                     THEN restock' = [req EXCEPT !.out = 400]
                     ELSE restock' = [req EXCEPT !.pc = "write",
                                                 !.newStock = newStock]
    /\ UNCHANGED <<view, custOp, dbVars, seq, tx, lock, elock, call, orderOp, faults, hist>>

\* Second half: flower.update({ stock: newStock }).
RestockWrite ==
    /\ restock.pc = "write"
    /\ lock[restock.id] = NoCall
    /\ flowers' = [flowers EXCEPT ![restock.id].stock = restock.newStock]
    /\ restock' = [restock EXCEPT !.pc = "idle", !.out = 200]
    /\ NoteAdjusted(restock.id)
    /\ UNCHANGED <<view, custOp, customers, orders, items, seq, tx, lock, elock, call, orderOp,
                   ops, faults>>

\* ---------------------------------------------------------------- catalog reads
\* GET /flowers and GET /flowers/:id are public and run one query each.
\* A flower as it appears in a response (isActive is among the attributes).
ShownFlower(f) == [id |-> f, active |-> flowers[f].active]

\* The minPrice filter of the listing (0: no filter).
MinPrices == {0, 500}

\* Variant: the listing does not filter on isActive.
ListedAll(minPrice) ==
    {f \in DOMAIN flowers : flowers[f].price >= minPrice}

\* Flower.findAndCountAll({ where: { ...where, isActive: true } }).
Listed(minPrice) ==
    {f \in DOMAIN flowers : flowers[f].active /\ flowers[f].price >= minPrice}

\* GET /flowers: 200 with the rows found.
FlowerList ==
    /\ view.pc = "idle"
    /\ \E min \in MinPrices :
        view' = [NoView EXCEPT !.kind = "flowers", !.id = min, !.out = 200,
                               !.body = {ShownFlower(f) : f \in Listed(min)}]
    /\ UNCHANGED <<custOp, dbVars, seq, tx, lock, elock, call, restock, orderOp,
                   ops, faults, hist>>

\* GET /flowers/:id: Flower.findByPk under the default scope, 404 when
\* `!flower || !flower.isActive`, else 200 with the row.
FlowerGet ==
    /\ view.pc = "idle"
    /\ \E id \in 1..(seq.flower + 1) :
        IF ActiveFlower(id)
        THEN view' = [NoView EXCEPT !.kind = "flower", !.id = id, !.out = 200,
                                    !.body = {ShownFlower(id)}]
        ELSE view' = [NoView EXCEPT !.kind = "flower", !.id = id, !.out = 404]
    /\ UNCHANGED <<custOp, dbVars, seq, tx, lock, elock, call, restock, orderOp,
                   ops, faults, hist>>

\* ---------------------------------------------------------------- one call alone
\* A placement run from its first query to its response with no other
\* request in between and no database error, as a function of the request
\* and of the catalog: the reservation loop over `list` from entry i, with
\* the stock the transaction sees, the rows it has created and its total.
Outcome(out, rows, total, stock) ==
    [out |-> out, items |-> rows, total |-> total, stock |-> stock]

StockOf(catalog) == [f \in DOMAIN catalog |-> catalog[f].stock]

RECURSIVE Reserve(_, _, _, _, _, _, _)
Reserve(path, catalog, list, i, stock, rows, total) ==
    IF i > Len(list) THEN Outcome("created", rows, total, stock)
    ELSE LET it == list[i]
             f == it.flowerId
             found == IF f \in DOMAIN catalog /\ catalog[f].active
                      THEN << [stock |-> stock[f], price |-> catalog[f].price] >>
                      ELSE << >>
             chk == CheckFlower(found, it.quantity)
         IN  IF chk # "ok" THEN Outcome(chk, {}, 0, StockOf(catalog))
             ELSE IF \E r \in rows : r.flowerId = f
             THEN Outcome(CatchOut(path, "validation", FALSE), {}, 0,
                          StockOf(catalog))
             ELSE Reserve(path, catalog, list, i + 1,
                          [stock EXCEPT ![f] = NewStock(found[1], it.quantity)],
                          rows \cup { [flowerId |-> f, quantity |-> it.quantity,
                                       price |-> found[1].price] },
                          total + LineTotal(found[1].price, it.quantity))

\* Either path for a request that names a valid, active customer.
PlaceOrderAlone(path, cart, catalog) ==
    IF cart = << >> THEN Outcome("items_required", {}, 0, StockOf(catalog))
    ELSE IF path = "shop" /\ ~Normalise(cart, << >>).ok
    THEN Outcome("invalid_item", {}, 0, StockOf(catalog))
    ELSE Reserve(path, catalog, LoopItems(path, cart), 1, StockOf(catalog),
                 {}, 0)

\* ---------------------------------------------------------------- orders
\* PATCH /orders/:id/status and DELETE /orders/:id run outside any
\* transaction, each as a read followed by a write.
\* Variant: an order cannot be put back to pending.
ValidStatusesForward == {"paid", "shipped", "delivered", "cancelled"}

\* Variant: one more value is let through.
ValidStatusesWider ==
    {"pending", "paid", "shipped", "delivered", "cancelled", "refunded"}

ValidStatuses == {"pending", "paid", "shipped", "delivered", "cancelled"}

\* The status values of the requests.
StatusInputs ==
    {"pending", "paid", "shipped", "delivered", "cancelled", "refunded"}

\* PATCH /orders/:id/status, first half: 400 unless the status is one of
\* the five, Order.findByPk(id), 404 when there is no such order.
StatusRead ==
    /\ orderOp.pc = "idle"
    /\ ops < MaxOrderOps
    /\ ops' = ops + 1
    /\ \E id \in 1..(seq.order + 1), status \in StatusInputs :
        IF status \notin ValidStatuses
        THEN orderOp' = [pc |-> "idle", id |-> id, status |-> status,
                         was |-> "none", out |-> 400]
        ELSE IF FindOrder(id) = << >>
        THEN orderOp' = [pc |-> "idle", id |-> id, status |-> status,
                         was |-> "none", out |-> 404]
        ELSE orderOp' = [pc |-> "update", id |-> id, status |-> status,
                         was |-> FindOrder(id)[1].status, out |-> 0]
    /\ UNCHANGED <<view, custOp, dbVars, seq, tx, lock, elock, call, restock, faults, hist>>

\* Second half: order.update({ status }), an UPDATE of the status column of
\* that row (of no row when the order is gone by now).
\* Variant: cancelling puts the stock of the order's items back.
StatusUpdateReturning(id, status) ==
    [orders |-> [o \in DOMAIN orders |->
                   IF o = id THEN [orders[o] EXCEPT !.status = status]
                   ELSE orders[o]],
     flowers |-> [f \in DOMAIN flowers |->
                    IF status = "cancelled"
                       /\ \E r \in items : r.orderId = id /\ r.flowerId = f
                    THEN [flowers[f] EXCEPT !.stock = @ +
                            (CHOOSE r \in items :
                               r.orderId = id /\ r.flowerId = f).quantity]
                    ELSE flowers[f]]]

\* The rows after order.update({ status }): UPDATE orders SET status = ...
\* WHERE id = ...; no other column and no other table is written.
StatusUpdate(id, status) ==
    [orders |-> [o \in DOMAIN orders |->
                   IF o = id THEN [orders[o] EXCEPT !.status = status]
                   ELSE orders[o]],
     flowers |-> flowers]

StatusWrite ==
    /\ orderOp.pc = "update"
    /\ orders' = StatusUpdate(orderOp.id, orderOp.status).orders
    /\ flowers' = StatusUpdate(orderOp.id, orderOp.status).flowers
    /\ orderOp' = [orderOp EXCEPT !.pc = "idle", !.out = 200]
    /\ UNCHANGED <<view, custOp, customers, items, seq, tx, lock, elock, call,
                   restock, ops, faults, hist>>

\* DELETE /orders/:id, first half: Order.findByPk(id), 404 when there is no
\* such order.
DeleteRead ==
    /\ orderOp.pc = "idle"
    /\ ops < MaxOrderOps
    /\ ops' = ops + 1
    /\ \E id \in 1..(seq.order + 1) :
        IF FindOrder(id) # << >>
        THEN orderOp' = [pc |-> "destroy", id |-> id, status |-> "none",
                         was |-> FindOrder(id)[1].status, out |-> 0]
        ELSE orderOp' = [pc |-> "idle", id |-> id, status |-> "none",
                         was |-> "none", out |-> 404]
    /\ UNCHANGED <<view, custOp, dbVars, seq, tx, lock, elock, call, restock, faults, hist>>

\* Variant: the foreign key does not cascade.
CascadeNone(rows, id) == rows

\* The order items left when order id is deleted: the foreign key
\* order_items.order_id is ON DELETE CASCADE.
Cascade(rows, id) == {r \in rows : r.orderId # id}

\* Second half: order.destroy(); the order's items go with it.  No stock is
\* put back.
DeleteWrite ==
    /\ orderOp.pc = "destroy"
    /\ orders' = [o \in DOMAIN orders \ {orderOp.id} |-> orders[o]]
    /\ items' = Cascade(items, orderOp.id)
    /\ orderOp' = [orderOp EXCEPT !.pc = "idle", !.out = 204]
    /\ UNCHANGED <<view, custOp, flowers, customers, seq, tx, lock, elock, call, restock,
                   ops, faults, hist>>

\* The demo orders of the seed script (two lines each), for customer 1.
SeedCarts == { <<Item(1, 1), Item(2, 1)>> }

\* createOrder of the seed script, run while no request holds a lock on the
\* rows it touches: Order.create with status 'paid', the same loop as the
\* routes (a refusal throws), order.update({ total }), commit; on a throw,
\* rollback.
SeedOrder ==
    /\ ops < MaxOrderOps
    /\ ops' = ops + 1
    /\ \E cart \in SeedCarts :
        LET id == seq.order + 1
            r == Reserve("seed", flowers, cart, 1, StockOf(flowers), {}, 0)
        IN  /\ \A f \in CartFlowers(cart) : f \in DOMAIN lock => lock[f] = NoCall
            /\ seq' = [seq EXCEPT !.order = id]
            /\ IF r.out = "created"
               THEN /\ orders' = Put(orders, id,
                                     [customerId |-> 1, status |-> "paid",
                                      total |-> r.total,
                                      fulfilment |-> "none"])
                    /\ items' = items \cup
                                  { [orderId |-> id, flowerId |-> x.flowerId,
                                     quantity |-> x.quantity, price |-> x.price] :
                                    x \in r.items }
                    /\ flowers' = [f \in DOMAIN flowers |->
                                     [flowers[f] EXCEPT !.stock = r.stock[f]]]
               ELSE UNCHANGED <<flowers, orders, items>>
    /\ UNCHANGED <<view, custOp, customers, tx, lock, elock, call, restock, orderOp, faults,
                   hist>>

\* ---------------------------------------------------------------- customers
\* POST /customers and DELETE /customers/:id run outside any transaction,
\* each as a read followed by a write.
\* Customer.findOne({ where: { email } }) under the default scope: active
\* rows only.
ActiveByEmail(e) ==
    {k \in DOMAIN customers : customers[k].email = e /\ customers[k].active}

\* POST /customers, first half: 400 when name or email is missing,
\* Customer.findOne by email, 400 when a customer is found.
CustomerCreateRead ==
    /\ custOp.pc = "idle"
    /\ ops < MaxCustomerOps
    /\ ops' = ops + 1
    /\ \E email \in Emails :
        LET req == [NoCustOp EXCEPT !.kind = "create", !.email = email]
        IN  IF email = "" \/ ActiveByEmail(email) # {}
            THEN custOp' = [req EXCEPT !.out = 400]
            ELSE custOp' = [req EXCEPT !.pc = "create"]
    /\ UNCHANGED <<view, dbVars, seq, tx, lock, elock, call, restock, orderOp,
                   faults, hist>>

\* Second half: Customer.create.  The INSERT waits for a transaction that
\* holds the email's unique-key lock and is refused when a row, active or
\* not, has the email (customers.email is unique): the catch block answers
\* 500.
CustomerCreateWrite ==
    /\ custOp.pc = "create"
    /\ elock[custOp.email] = NoCall
    /\ IF ByEmail(custOp.email) # {}
       THEN /\ custOp' = [custOp EXCEPT !.pc = "idle", !.out = 500]
            /\ UNCHANGED <<customers, seq>>
       ELSE LET id == seq.customer + 1
            IN  /\ customers' = Put(customers, id,
                                     [email |-> custOp.email, active |-> TRUE])
                /\ seq' = [seq EXCEPT !.customer = id]
                /\ custOp' = [custOp EXCEPT !.pc = "idle", !.id = id,
                                            !.out = 201]
    /\ UNCHANGED <<view, flowers, orders, items, tx, lock, elock, call, restock,
                   orderOp, ops, faults, hist>>

\* DELETE /customers/:id, first half: Customer.findByPk(id) under the
\* default scope, 404 when no active customer has the id.
CustomerDeleteRead ==
    /\ custOp.pc = "idle"
    /\ ops < MaxCustomerOps
    /\ ops' = ops + 1
    /\ \E id \in 1..(seq.customer + 1) :
        LET req == [NoCustOp EXCEPT !.kind = "delete", !.id = id]
        IN  IF id \in DOMAIN customers /\ customers[id].active
            THEN custOp' = [req EXCEPT !.pc = "deactivate",
                                       !.email = customers[id].email]
            ELSE custOp' = [req EXCEPT !.out = 404]
    /\ UNCHANGED <<view, dbVars, seq, tx, lock, elock, call, restock, orderOp,
                   faults, hist>>

\* Variant: the customer's orders and their items are deleted with it.
DeactivatedWithOrders(id) ==
    LET gone == {o \in DOMAIN orders : orders[o].customerId = id}
    IN  [customers |-> [customers EXCEPT ![id].active = FALSE],
         orders |-> [o \in DOMAIN orders \ gone |-> orders[o]],
         items |-> {r \in items : r.orderId \notin gone}]

\* The rows customer.update({ isActive: false }) leaves behind: the
\* customer's row flagged, no order or order item touched.
Deactivated(id) ==
    [customers |-> [customers EXCEPT ![id].active = FALSE],
     orders |-> orders,
     items |-> items]

\* Second half: customer.update({ isActive: false }), after any transaction
\* that has written the row.
CustomerDeleteWrite ==
    /\ custOp.pc = "deactivate"
    /\ elock[custOp.email] = NoCall
    /\ customers' = Deactivated(custOp.id).customers
    /\ orders' = Deactivated(custOp.id).orders
    /\ items' = Deactivated(custOp.id).items
    /\ custOp' = [custOp EXCEPT !.pc = "idle", !.out = 204]
    /\ UNCHANGED <<view, flowers, seq, tx, lock, elock, call, restock, orderOp, ops,
                   faults, hist>>

\* ---------------------------------------------------------------- my orders
\* GET /shop/orders and GET /shop/orders/:id read twice, outside any
\* transaction: the profile by the principal's email, then the orders.
\* An order as it appears in a response.
Shown(o) == [id |-> o, customerId |-> orders[o].customerId]

\* First half of both: Customer.unscoped().findOne by the principal's email;
\* with no profile the list answers 200 with no orders and the single
\* lookup answers 404.
ViewCustomer ==
    /\ view.pc = "idle"
    /\ \E kind \in {"list", "one"}, email \in Emails \ {""},
          id \in 0..(seq.order + 1) :
        /\ (kind = "list") = (id = 0)
        /\ LET req == [NoView EXCEPT !.kind = kind, !.email = email, !.id = id]
           IN  IF ByEmail(email) = {}
               THEN view' = [req EXCEPT
                               !.out = IF kind = "list" THEN 200 ELSE 404]
               ELSE view' = [req EXCEPT
                               !.pc = "orders",
                               !.customer = CHOOSE k \in ByEmail(email) : TRUE]
    /\ UNCHANGED <<custOp, dbVars, seq, tx, lock, elock, call, restock, orderOp,
                   ops, faults, hist>>

\* Variant: the single lookup does not compare the owner.
NotOwnerNever(order, customer) == FALSE

\* order.customerId !== customer.id
NotOwner(order, customer) == order.customerId # customer

\* Order.findAll({ where: { customerId: customer.id } })
OrdersOf(customer) ==
    {o \in DOMAIN orders : orders[o].customerId = customer}

\* Second half of the list: the orders of that profile, 200.
ViewList ==
    /\ view.pc = "orders"
    /\ view.kind = "list"
    /\ view' = [view EXCEPT !.pc = "idle", !.out = 200,
                            !.body = {Shown(o) : o \in OrdersOf(view.customer)}]
    /\ UNCHANGED <<custOp, dbVars, seq, tx, lock, elock, call, restock, orderOp,
                   ops, faults, hist>>

\* Second half of the single lookup: Order.findByPk(id); 404 when there is
\* no such order or it is another profile's, else 200 with the order.
ViewOne ==
    /\ view.pc = "orders"
    /\ view.kind = "one"
    /\ IF \/ FindOrder(view.id) = << >>
          \/ NotOwner(FindOrder(view.id)[1], view.customer)
       THEN view' = [view EXCEPT !.pc = "idle", !.out = 404]
       ELSE view' = [view EXCEPT !.pc = "idle", !.out = 200,
                                 !.body = {Shown(view.id)}]
    /\ UNCHANGED <<custOp, dbVars, seq, tx, lock, elock, call, restock, orderOp,
                   ops, faults, hist>>

\* ---------------------------------------------------------------- Next
PlaceOrder(c) ==
    \/ ShopBegin(c)
    \/ ShopProfile(c)
    \/ StaffBegin(c)
    \/ StaffCustomer(c)
    \/ OrderCreate(c)
    \/ ReadFlower(c)
    \/ CreateItem(c)
    \/ UpdateStock(c)
    \/ UpdateTotal(c)
    \/ Commit(c)
    \/ Refetch(c)
    \/ Abort(c)
    \/ Fault(c)
    \/ Catch(c)

Catalog ==
    \/ FlowerCreate
    \/ FlowerUpdate
    \/ FlowerDeactivate
    \/ RestockRead
    \/ RestockWrite

CatalogReads ==
    \/ FlowerList
    \/ FlowerGet

OrderOps ==
    \/ SeedOrder
    \/ StatusRead
    \/ StatusWrite
    \/ DeleteRead
    \/ DeleteWrite

CustomerOps ==
    \/ CustomerCreateRead
    \/ CustomerCreateWrite
    \/ CustomerDeleteRead
    \/ CustomerDeleteWrite

Views ==
    \/ ViewCustomer
    \/ ViewList
    \/ ViewOne

\* Concurrent order placement: NCalls requests, each on either path, every
\* interleaving of their awaited database calls.
Next == \E c \in Calls : PlaceOrder(c)

Spec == Init /\ [][Next]_vars

\* One order placement interleaved with the catalog handlers.
NextCatalog == PlaceOrder(1) \/ Catalog

SpecCatalog == Init /\ [][NextCatalog]_vars

\* One order placement interleaved with the staff's order handlers.
NextOrders == PlaceOrder(1) \/ OrderOps

SpecOrders == Init /\ [][NextOrders]_vars

\* One order placement interleaved with the staff's customer handlers.
NextCustomers == PlaceOrder(1) \/ CustomerOps

SpecCustomers == Init /\ [][NextCustomers]_vars

\* One order placement and the seed's orders (customer 1), interleaved with
\* the customers' order lookups.
NextViews == PlaceOrder(1) \/ SeedOrder \/ Views

SpecViews == Init /\ [][NextViews]_vars

\* The steps of a staff call that run once the database has answered: every
\* step of the handler after the request arrived, throws apart.
Proceed(c) ==
    \/ StaffCustomer(c)
    \/ OrderCreate(c)
    \/ ReadFlower(c)
    \/ CreateItem(c)
    \/ UpdateStock(c)
    \/ UpdateTotal(c)
    \/ Commit(c)
    \/ Refetch(c)
    \/ Abort(c)
    \/ Catch(c)
    \/ DeadlockVictim(c)

\* Concurrent staff placements (the path that reads with `lock`) with the
\* database's deadlock handling and no other database error: the event loop
\* runs every continuation whose query has been answered, and the database
\* answers every query that is not waiting for a lock.
NextLive == \E c \in Calls : StaffBegin(c) \/ Proceed(c)

SpecLive ==
    Init /\ [][NextLive]_vars /\ \A c \in Calls : WF_vars(Proceed(c))

\* The catalog handlers interleaved with the public catalog reads.
NextCatalogReads == Catalog \/ CatalogReads

SpecCatalogReads == Init /\ [][NextCatalogReads]_vars

\* ---------------------------------------------------------------- properties
Done(c) == call[c].pc = "done"

\* The call is the only one that has started.
Alone(c) == \A d \in Calls \ {c} : call[d].pc = "idle"

OrderItems(o) == {r \in items : r.orderId = o}

RECURSIVE SumQuantity(_)
SumQuantity(S) ==
    IF S = {} THEN 0
    ELSE LET r == CHOOSE r \in S : TRUE
         IN  r.quantity + SumQuantity(S \ {r})

RECURSIVE SumLines(_)
SumLines(S) ==
    IF S = {} THEN 0
    ELSE LET r == CHOOSE r \in S : TRUE
         IN  r.quantity * r.price + SumLines(S \ {r})

RECURSIVE CartQty(_, _)
CartQty(cart, f) ==
    IF cart = << >> THEN 0
    ELSE (IF Head(cart).flowerId = f THEN Head(cart).quantity ELSE 0)
         + CartQty(Tail(cart), f)

\* The call is for a customer the path accepts (profile present and active).
KnownCustomer(c) ==
    IF call[c].path = "shop" THEN call[c].phone /\ call[c].email = Jane
    ELSE call[c].customerId = 1

\* No order row and no order item row exists for the order the call created.
NoTrace(c) ==
    call[c].orderId \notin DOMAIN orders /\ OrderItems(call[c].orderId) = {}

\* A call run alone, stepwise, ends as PlaceOrderAlone says.
AloneAgrees ==
    \A c \in Calls :
        (Done(c) /\ Alone(c) /\ faults = 0 /\ KnownCustomer(c)) =>
            LET r == PlaceOrderAlone(call[c].path, call[c].cart,
                                     [f \in DOMAIN flowers |->
                                        [flowers[f] EXCEPT !.stock = hist.stock0[f]]])
            IN  /\ call[c].out = r.out
                /\ StockOf(flowers) = r.stock
                /\ { [flowerId |-> x.flowerId, quantity |-> x.quantity,
                      price |-> x.price] : x \in OrderItems(call[c].orderId) }
                   = r.items
                /\ (r.out = "created" => orders[call[c].orderId].total = r.total)

\* Every call has asked for quantity q of the one flower f and has returned.
AllRequested(f, q) ==
    \A c \in Calls :
        Done(c) /\ call[c].cart = <<Item(f, q)>> /\ KnownCustomer(c)

Succeeded == {c \in Calls : call[c].out = "created"}

\* C1: No oversell. When every call has asked for quantity q of the one
\* flower f and has returned, exactly floor(S/q) of them have succeeded, the
\* others were refused for insufficient stock, and f's stock is S minus q per
\* success and not negative (S the stock before the calls; runs in which no
\* database call threw).
C1_NoOversell ==
    \A f \in {1, 2}, q \in {1, 2} :
        (faults = 0 /\ AllRequested(f, q)) =>
            /\ Cardinality(Succeeded) = hist.stock0[f] \div q
            /\ \A c \in Calls \ Succeeded : call[c].out = "insufficient"
            /\ flowers[f].stock = hist.stock0[f] - q * Cardinality(Succeeded)
            /\ flowers[f].stock >= 0

\* The call was refused at one of its items and has returned.
FailedAtItem(c) ==
    Done(c) /\ call[c].out \in {"invalid_item", "unavailable", "insufficient"}

\* C2: Atomicity. A call that is refused at its k-th item (invalid entry,
\* unavailable flower, insufficient stock) leaves no order row and no order
\* item row for its order, its transaction is rolled back, and none of its
\* steps but a commit changes a committed row; when it ran alone every
\* flower has the stock it had before.
C2_Atomicity ==
    [][\A c \in Calls :
        /\ (call'[c] # call[c] /\ call[c].pc # "commit")
              => UNCHANGED <<flowers, orders, items>>
        /\ FailedAtItem(c)' => (NoTrace(c)' /\ tx'[c].state = "rollback")
        /\ (FailedAtItem(c)' /\ Alone(c)')
              => \A f \in DOMAIN flowers' : flowers'[f].stock = hist'.stock0[f]
      ]_vars

\* A call refused at its second item, after the first item's stock write.
C2_Witness ==
    \E c \in Calls :
        FailedAtItem(c) /\ call[c].out = "insufficient" /\ call[c].i = 2

\* C3: Exactly-once decrement. For every flower whose stock no catalog
\* operation has written, first stock minus current stock is the sum of the
\* quantities of the committed order items for that flower.
C3_ExactlyOnce ==
    \A f \in DOMAIN flowers :
        f \notin hist.adjusted =>
            hist.stock0[f] - flowers[f].stock
                = SumQuantity({r \in items : r.flowerId = f})

\* C4: Every flower's stock is non-negative in every reachable state.
C4_StockNonNegative == \A f \in DOMAIN flowers : flowers[f].stock >= 0

\* C5: Total correctness. Every committed order's total is the sum over its
\* order items of quantity * price, in cents.
C5_TotalCorrect ==
    \A o \in DOMAIN orders : orders[o].total = SumLines(OrderItems(o))

\* A committed order with two lines.
C5_Witness ==
    \E o \in DOMAIN orders :
        Cardinality(OrderItems(o)) = 2 /\ orders[o].total = 990 + 250

\* C6: A call that returned anything but success (a 400 or a 500) has left
\* no order row and no order item row, and when it ran alone every flower has
\* the stock it had before.
C6_FailureNoEffect ==
    \A c \in Calls :
        (Done(c) /\ Status(call[c].out) \in {400, 500}) =>
            /\ NoTrace(c)
            /\ Alone(c) => \A f \in DOMAIN flowers :
                              flowers[f].stock = hist.stock0[f]

\* C7: A call answered with 500 has applied nothing: the order it was
\* creating is not committed, so a retry cannot make a second one.
C7_ServerErrorNotApplied ==
    \A c \in Calls :
        (Done(c) /\ Status(call[c].out) = 500) =>
            call[c].orderId \notin DOMAIN orders

\* C8: Merge. On the customer path the quantity checked against the stock
\* and written to the order item is the sum of the cart's quantities for
\* that flower, and a created order has exactly one order item per distinct
\* flowerId of the cart, with that sum as its quantity.
C8_Merge ==
    \A c \in Calls :
        call[c].path = "shop" =>
            /\ call[c].pc \in {"read", "item", "stock"} =>
                  call[c].merged[call[c].i].quantity
                      = CartQty(call[c].cart, call[c].merged[call[c].i].flowerId)
            /\ call[c].out = "created" =>
                  /\ \A f \in CartFlowers(call[c].cart) :
                        \E r \in OrderItems(call[c].orderId) :
                            r.flowerId = f /\ r.quantity = CartQty(call[c].cart, f)
                  /\ Cardinality(OrderItems(call[c].orderId))
                        = Cardinality(CartFlowers(call[c].cart))

\* A created order whose cart listed flower 1 twice.
C8_Witness ==
    \E c \in Calls :
        /\ call[c].path = "shop" /\ call[c].out = "created"
        /\ call[c].cart = <<Item(1, 1), Item(1, 1)>>
        /\ \E r \in OrderItems(call[c].orderId) : r.flowerId = 1 /\ r.quantity = 2

\* C9: The staff path and the customer path agree: for every cart and every
\* catalog state, a call for a valid active customer gives the same outcome
\* class, order items, total and stocks on both paths.
C9_PathsAgree ==
    \A cart \in Carts :
        PlaceOrderAlone("shop", cart, flowers)
            = PlaceOrderAlone("staff", cart, flowers)

\* C10: Price snapshot. A step that changes a flower's catalog price leaves
\* every committed order item (its price included) and every committed
\* order's total as they were.
C10_PriceSnapshot ==
    [][(\E f \in DOMAIN flowers : flowers'[f].price # flowers[f].price) =>
          /\ items' = items
          /\ \A o \in DOMAIN orders :
                o \in DOMAIN orders' /\ orders'[o].total = orders[o].total
      ]_vars

\* A committed order item whose price differs from the flower's price now.
C10_Witness ==
    \E r \in items : flowers[r.flowerId].price # r.price

\* The committed customer rows that carry email e.
ProfilesOf(e) == {k \in DOMAIN customers : customers[k].email = e}

\* The customer-path call's order is committed.
Placed(c) == call[c].path = "shop" /\ call[c].orderId \in DOMAIN orders

\* C11: Profile reactivation. When a principal whose profile is soft-deleted
\* (John, row 2) has placed an order, there is exactly one customer row with
\* that email, it is row 2, it is active, and the order's customerId is 2.
C11_Reactivation ==
    \A c \in Calls :
        (Placed(c) /\ call[c].email = John) =>
            /\ ProfilesOf(John) = {2}
            /\ customers[2].active
            /\ orders[call[c].orderId].customerId = 2

\* John's order was created and answered with 201.
C11_Witness ==
    \E c \in Calls :
        /\ Placed(c) /\ call[c].email = John /\ call[c].out = "created"
        /\ customers[2].active

\* No other call for the same email has committed.
OnlyCallFor(c) ==
    \A d \in Calls \ {c} :
        call[d].email # call[c].email \/ call[d].orderId \notin DOMAIN orders

\* C12: A customer-path call that fails after profile resolution leaves no
\* profile side effect: once it has answered 400 or 500, a profile it created
\* (New) does not exist and a profile it reactivated (John) is inactive,
\* no other call for that email having committed.
C12_NoProfileSideEffect ==
    \A c \in Calls :
        (/\ Done(c) /\ call[c].path = "shop" /\ call[c].customerId # 0
         /\ Status(call[c].out) \in {400, 500}
         /\ OnlyCallFor(c)) =>
            /\ call[c].email = New => ProfilesOf(New) = {}
            /\ call[c].email = John => ~customers[2].active

\* The flower id of the cart line the call is at.
Reading(c) == call[c].merged[call[c].i].flowerId

\* The call takes the step that follows its read of a flower (no throw).
ReadStep(c) ==
    call[c].pc = "read" /\ call'[c] # call[c] /\ call'[c].pc # "catch"

\* C13: An inactive or missing flower is never purchasable. On either path,
\* when the flower a call reads is missing or inactive, the call goes to
\* rollback with the 400 answer that names that flowerId, and no call is
\* answered 201 for a cart naming a flower that does not exist; once
\* answered, the refused call has left no order and no order item, and
\* every flower whose stock no catalog operation wrote has its first stock.
C13_ItemUnavailable ==
    [][\A c \in Calls :
        /\ (ReadStep(c) /\ ~ActiveFlower(Reading(c))) =>
              /\ call'[c].pc = "abort"
              /\ call'[c].out = "unavailable"
              /\ Status(call'[c].out) = 400
              /\ call'[c].body.flowerId = Reading(c)
        /\ call'[c].out = "created" =>
              \A f \in CartFlowers(call'[c].cart) : f \in DOMAIN flowers'
        /\ (Done(c)' /\ call'[c].out = "unavailable") =>
              /\ NoTrace(c)'
              /\ tx'[c].state = "rollback"
              /\ \A f \in DOMAIN flowers' :
                    f \notin hist'.adjusted =>
                        flowers'[f].stock = hist'.stock0[f]
      ]_vars

\* A call refused at its second line for a flower that exists and has been
\* deactivated, after the first line's stock write.
C13_Witness ==
    \E c \in Calls :
        /\ Done(c) /\ call[c].out = "unavailable" /\ call[c].i = 2
        /\ call[c].body.flowerId \in DOMAIN flowers
        /\ ~flowers[call[c].body.flowerId].active

\* C14: A call refused for insufficient stock answers 400 with the flowerId,
\* the available stock and the requested (merged) quantity, and when it ran
\* alone the flower's stock is what it was.
C14_InsufficientStock ==
    \A c \in Calls :
        (Done(c) /\ call[c].out = "insufficient") =>
            LET it == call[c].merged[call[c].i]
            IN  /\ Status(call[c].out) = 400
                /\ (Alone(c) =>
                      flowers[it.flowerId].stock = hist.stock0[it.flowerId])
                /\ {"flowerId", "available", "requested"}
                      \subseteq DOMAIN call[c].body
                /\ call[c].body.flowerId = it.flowerId
                /\ call[c].body.requested = it.quantity
                /\ call[c].body.available <= hist.stock0[it.flowerId]

\* The cart is empty or has an entry without flowerId or with a quantity
\* below 1.
BadCart(cart) ==
    cart = << >> \/ \E k \in 1..Len(cart) : InvalidEntry(cart[k])

\* C15: A call (either path) whose cart is empty or has an entry with no
\* flowerId or a quantity below 1 never creates an order item, and is
\* answered 400 when no database call threw.
C15_CartValidation ==
    \A c \in Calls :
        (call[c].path # "none" /\ BadCart(call[c].cart)) =>
            /\ tx[c].items = {}
            /\ OrderItems(call[c].orderId) = {}
            /\ (Done(c) /\ faults = 0) => Status(call[c].out) = 400

\* C16: Every order item, committed or written in an open transaction, has
\* an integer quantity of at least 1.
C16_QuantityPositive ==
    \A r \in items \cup UNION {tx[c].items : c \in Calls} :
        r.quantity \in Nat /\ r.quantity >= 1

\* C17: There is at most one order item per (orderId, flowerId), among the
\* committed rows and the rows of every open transaction.
C17_OneItemPerKey ==
    \A r1, r2 \in items \cup UNION {tx[c].items : c \in Calls} :
        (r1.orderId = r2.orderId /\ r1.flowerId = r2.flowerId) => r1 = r2

\* A staff-path cart naming flower 1 twice: the second row was refused by
\* the primary key.
C17_Witness ==
    \E c \in Calls :
        /\ Done(c) /\ call[c].path = "staff" /\ call[c].err = "validation"
        /\ call[c].cart = <<Item(1, 1), Item(1, 1)>>

ValidationOuts ==
    {"items_required", "phone_required", "bad_request", "invalid_item"}

\* C18: Validation fails fast. A call refused by validation (empty cart,
\* missing contactPhone, missing principal email, invalid cart entry) has
\* issued no write before: no Order.create (it has no order id) and no
\* write pending in its transaction.
C18_FailFast ==
    \A c \in Calls :
        call[c].out \in ValidationOuts =>
            /\ call[c].orderId = 0
            /\ tx[c].order = << >>
            /\ tx[c].cust = << >>

\* C19: Every order is created pending. Every order row that a step commits
\* has status pending, and every 201 response carries the order with status
\* pending.
C19_CreatedPending ==
    [][/\ \A o \in DOMAIN orders' \ DOMAIN orders :
             orders'[o].status = "pending"
       /\ \A c \in Calls :
             (call'[c].out = "created" /\ call[c].out # "created") =>
                 /\ call'[c].body.order # << >>
                 /\ call'[c].body.order[1].status = "pending"
      ]_vars

\* C20: A call that opened a transaction has finished it exactly once when
\* it returns: one commit() or rollback() was invoked in all, and the
\* transaction is not left open.
C20_FinishedOnce ==
    \A c \in Calls :
        (Done(c) /\ tx[c].state # "none") =>
            /\ tx[c].state \in {"commit", "rollback"}
            /\ call[c].fin = 1

\* C21: Fulfilment. A customer-path call whose fulfilment is omitted stores
\* pickup with its order, and one whose fulfilment is neither pickup nor
\* delivery is answered 400 (no database call having thrown) and creates no
\* order.
C21_Fulfilment ==
    \A c \in Calls :
        call[c].path = "shop" =>
            /\ (call[c].fulfilment = Omitted /\ Placed(c)) =>
                  orders[call[c].orderId].fulfilment = "pickup"
            /\ call[c].fulfilment \notin {Omitted, "pickup", "delivery"} =>
                  /\ call[c].orderId = 0
                  /\ (Done(c) /\ faults = 0) => Status(call[c].out) = 400

\* C22: A customer-path call by a principal without email resolves no
\* profile and creates no order, writes nothing in its transaction, and is
\* answered 400 (err.status of the profile error); no customer row has the
\* empty email, and when it ran alone every flower has its first stock.
C22_MissingEmail ==
    \A c \in Calls :
        (call[c].path = "shop" /\ call[c].email = "" /\ call[c].phone
         /\ call[c].cart # << >>) =>
            /\ call[c].customerId = 0 /\ call[c].orderId = 0
            /\ tx[c].cust = << >> /\ tx[c].order = << >>
            /\ tx[c].items = {} /\ tx[c].stock = << >>
            /\ ProfilesOf("") = {}
            /\ Done(c) =>
                  /\ call[c].out = "bad_request"
                  /\ Status(call[c].out) = 400
                  /\ tx[c].state = "rollback"
                  /\ Alone(c) => \A f \in DOMAIN flowers :
                                    flowers[f].stock = hist.stock0[f]

\* The call of a principal without email has been answered.
C22_Witness ==
    \E c \in Calls :
        /\ Done(c) /\ call[c].path = "shop" /\ call[c].email = ""
        /\ call[c].out = "bad_request"

FiveStatuses == {"pending", "paid", "shipped", "delivered", "cancelled"}

\* C23: updateStatus accepts only pending, paid, shipped, delivered and
\* cancelled. A status request with any other value is answered 400 without
\* reaching the update and leaves every order and order item as it was, and
\* after every step every order's status is one of the five.
C23_StatusEnum ==
    [][/\ \A o \in DOMAIN orders' : orders'[o].status \in FiveStatuses
       /\ (orderOp' # orderOp /\ orderOp'.status \notin FiveStatuses \cup {"none"}) =>
             /\ orderOp'.pc = "idle" /\ orderOp'.out = 400
             /\ orders' = orders /\ items' = items
       /\ (orderOp.pc = "update" /\ orderOp'.pc = "idle"
           /\ orderOp.id \in DOMAIN orders) =>
             /\ orderOp'.out = 200
             /\ orders'[orderOp.id].status = orderOp.status
      ]_vars

\* An order has been cancelled by a status update, and a request with a
\* sixth value has been refused.
C23_Witness ==
    /\ \E o \in DOMAIN orders : orders[o].status = "cancelled"
    /\ orderOp.status = "refunded" /\ orderOp.out = 400

\* C25: Deleting an order removes its order items with it: the step that
\* destroys order id leaves no order item with that orderId and no such
\* order, and every order item of another order as it was.
C25_DeleteCascades ==
    [][(orderOp.pc = "destroy" /\ orderOp'.pc = "idle") =>
          /\ orderOp'.out = 204
          /\ orderOp.id \notin DOMAIN orders'
          /\ {r \in items' : r.orderId = orderOp.id} = {}
          /\ {r \in items' : r.orderId # orderOp.id}
                = {r \in items : r.orderId # orderOp.id}
          /\ \A o \in DOMAIN orders \ {orderOp.id} :
                o \in DOMAIN orders' /\ orders'[o] = orders[o]
      ]_vars

\* An order with items has been deleted while another order's items stay.
C25_Witness ==
    /\ orderOp.out = 204
    /\ orderOp.id \notin DOMAIN orders
    /\ OrderItems(orderOp.id) = {}
    /\ \E o \in DOMAIN orders : OrderItems(o) # {}

\* C24: Restock. A restock of delta d on an active flower read with stock s
\* goes on to write s + d when s + d >= 0, and the write sets the flower's
\* stock to exactly that and answers 200; when s + d < 0 the request is
\* answered 400 and the stock is unchanged.
C24_Restock ==
    [][restock' # restock =>
          LET id == restock'.id
              d == restock'.delta
          IN  /\ (restock.pc = "idle" /\ ActiveFlower(id)) =>
                    /\ flowers' = flowers
                    /\ IF flowers[id].stock + d >= 0
                       THEN /\ restock'.pc = "write"
                            /\ restock'.newStock = flowers[id].stock + d
                       ELSE /\ restock'.pc = "idle"
                            /\ restock'.out = 400
              /\ restock.pc = "write" =>
                    /\ restock'.pc = "idle" /\ restock'.out = 200
                    /\ flowers'[id].stock = restock.newStock
                    /\ restock.newStock >= 0
      ]_vars

\* A restock of -1 has brought flower 1 from 2 to 1.
C24_Witness ==
    /\ restock.pc = "idle" /\ restock.out = 200
    /\ restock.id = 1 /\ restock.delta = -1
    /\ flowers[1].stock = hist.stock0[1] - 1


\* C26: Deleting a customer keeps the customer's orders. The step that
\* deactivates a customer answers 204 and leaves every order and every order
\* item as it was, and no step of a customer handler changes an order or an
\* order item.
C26_CustomerDeleteKeepsOrders ==
    [][/\ custOp' # custOp => (orders' = orders /\ items' = items)
       /\ (custOp.pc = "deactivate" /\ custOp'.pc = "idle") =>
             /\ custOp'.out = 204
             /\ ~customers'[custOp.id].active
      ]_vars

\* A customer with a committed order that has items has been deactivated.
C26_Witness ==
    /\ custOp.kind = "delete" /\ custOp.out = 204
    /\ \E o \in DOMAIN orders :
          /\ orders[o].customerId = custOp.id
          /\ ~customers[custOp.id].active
          /\ OrderItems(o) # {}

\* C27: Email is a unique profile key and a soft-deleted profile is
\* reactivated, not recreated. No two customer rows have the same email, and
\* once staff's create for the email of the soft-deleted profile (John,
\* row 2) has been answered, row 2 is the one row with that email and is
\* active.
C27_StaffReactivates ==
    /\ \A j, k \in DOMAIN customers :
          customers[j].email = customers[k].email => j = k
    /\ (custOp.kind = "create" /\ custOp.pc = "idle" /\ custOp.email = John) =>
          /\ ProfilesOf(John) = {2}
          /\ customers[2].active

\* C28: A customer views only their own orders. Whenever the single-order
\* lookup answers, it answers 200 with the order requested exactly when that
\* order exists and its customerId is the id of the profile carrying the
\* principal's email, and 404 with no order otherwise; every order in an
\* answer of the list lookup has the customerId of the principal's profile.
C28_OwnOrdersOnly ==
    [][/\ (view'.kind = "one" /\ view'.pc = "idle" /\ view' # view) =>
             IF /\ view'.id \in DOMAIN orders
                /\ orders[view'.id].customerId \in ProfilesOf(view'.email)
             THEN view'.out = 200 /\ view'.body = {Shown(view'.id)}
             ELSE view'.out = 404 /\ view'.body = {}
       /\ (view'.kind = "list" /\ view'.pc = "idle" /\ view' # view) =>
             /\ view'.out = 200
             /\ \A x \in view'.body : x.customerId \in ProfilesOf(view'.email)
      ]_vars

\* A principal who has a profile asked for an existing order of another
\* customer and was answered 404.
C28_Witness ==
    /\ view.kind = "one" /\ view.pc = "idle" /\ view.out = 404
    /\ view.customer # 0
    /\ view.id \in DOMAIN orders
    /\ orders[view.id].customerId # view.customer

\* The flower ids of a list of entries in the order of their first
\* occurrence.
RECURSIVE Firsts(_, _)
Firsts(list, seen) ==
    IF list = << >> THEN << >>
    ELSE IF Head(list).flowerId \in seen THEN Firsts(Tail(list), seen)
    ELSE <<Head(list).flowerId>>
            \o Firsts(Tail(list), seen \cup {Head(list).flowerId})

FirstOccurrence(list) == Firsts(list, {})

\* The flowers of the entries before position i of the call's loop.
Before(c) == {call[c].merged[k].flowerId : k \in 1..(call[c].i - 1)}

InLoop(c) == call[c].pc \in {"read", "item", "stock"}

\* The loop is at the flowers of the cart in the order of their first
\* occurrence, the flowers before the current one have their item and their
\* stock written, and no later one has.
LoopOrder(c) ==
    InLoop(c) =>
        /\ FirstOccurrence(call[c].merged) = FirstOccurrence(call[c].cart)
        /\ (call[c].path = "shop" =>
              Len(call[c].merged) = Len(FirstOccurrence(call[c].cart)))
        /\ {r.flowerId : r \in tx[c].items} =
              Before(c) \cup (IF call[c].pc = "stock" THEN {Reading(c)} ELSE {})
        /\ DOMAIN tx[c].stock = Before(c)

\* The steps on one flower: the read with the two checks and the price
\* snapshot, then the item with that price, then the stock of that read less
\* the quantity, then the next flower.  A refusal is about the flower just
\* read.
LoopStep(c) ==
    LET a == call[c]
        b == call'[c]
        it == a.merged[a.i]
        found == FindFlower(c, it.flowerId)
        chk == CheckFlower(found, it.quantity)
    IN  (InLoop(c) /\ b # a /\ b.pc # "catch") =>
            /\ b.merged = a.merged
            /\ a.pc = "read" =>
                 /\ tx'[c].items = tx[c].items /\ tx'[c].stock = tx[c].stock
                 /\ IF chk = "ok"
                    THEN b.pc = "item" /\ b.i = a.i /\ b.snap = found
                    ELSE /\ b.pc = "abort" /\ b.out = chk
                         /\ b.body = RefusalBody(chk, it.flowerId)
            /\ a.pc = "item" =>
                 /\ b.pc = "stock" /\ b.i = a.i
                 /\ tx'[c].items = tx[c].items \cup
                       { [orderId |-> a.orderId, flowerId |-> it.flowerId,
                          quantity |-> it.quantity, price |-> a.snap[1].price] }
                 /\ tx'[c].stock = tx[c].stock
            /\ a.pc = "stock" =>
                 /\ b.i = a.i + 1
                 /\ b.pc = IF a.i < Len(a.merged) THEN "read" ELSE "total"
                 /\ tx'[c].items = tx[c].items
                 /\ tx'[c].stock =
                       Put(tx[c].stock, it.flowerId, a.snap[1].stock - it.quantity)

\* C29: Within one call the flowers are reserved one at a time in the order
\* of their first occurrence in the cart; on each flower the steps are the
\* read, the availability check, the stock check, the price snapshot, the
\* creation of the order item and the decrement of the stock, in that order;
\* a refusal is about the flower being read, every flower before it having
\* passed.
C29_ReservationOrder ==
    [][\A c \in Calls : LoopOrder(c) /\ LoopStep(c)]_vars

\* A customer's cart names flower 1, then 2, then 1 again: the item and the
\* stock of flower 1 (quantity 2) are written and the call has created the
\* item of flower 2, the second and last of its loop.
C29_Witness ==
    \E c \in Calls :
        /\ call[c].path = "shop"
        /\ call[c].cart = <<Item(1, 1), Item(2, 1), Item(1, 1)>>
        /\ call[c].pc = "stock" /\ call[c].i = 2
        /\ Reading(c) = 2
        /\ DOMAIN tx[c].stock = {1}

\* C30: Every failed call emits exactly one log event for the failure: a
\* call that has ended without a 201 has logged once, neither zero times nor
\* more than once.
C30_FailureLoggedOnce ==
    \A c \in Calls :
        (Done(c) /\ call[c].out # "created") => call[c].logs = 1

\* C37: updateStatus changes only the status field of the addressed order.
\* The step that writes the status leaves the order's total, customerId and
\* fulfilment, every other order, every order item, every customer and every
\* flower as they were, also when the new status is cancelled; the steps of
\* the handler that write no status change no row at all.
C37_StatusOnly ==
    [][/\ (orderOp.pc = "update" /\ orderOp'.pc = "idle") =>
             /\ flowers' = flowers /\ items' = items /\ customers' = customers
             /\ DOMAIN orders' = DOMAIN orders
             /\ \A o \in DOMAIN orders :
                   IF o = orderOp.id
                   THEN orders'[o] = [orders[o] EXCEPT !.status = orderOp.status]
                   ELSE orders'[o] = orders[o]
       /\ (orderOp' # orderOp /\ orderOp.pc = "idle") =>
             /\ flowers' = flowers /\ items' = items /\ customers' = customers
             /\ orders' = orders
      ]_vars

\* An order with items has been cancelled by a status update while another
\* order exists, and the stock its items took is still taken.
C37_Witness ==
    /\ orderOp.pc = "idle" /\ orderOp.out = 200 /\ orderOp.status = "cancelled"
    /\ orderOp.id \in DOMAIN orders
    /\ orders[orderOp.id].status = "cancelled"
    /\ orders[orderOp.id].total > 0
    /\ \E r \in OrderItems(orderOp.id) :
          flowers[r.flowerId].stock < hist.stock0[r.flowerId]
    /\ Cardinality(DOMAIN orders) > 1

\* C38: updateStatus imposes no transition order. A request for any of the
\* five statuses on an existing order, whatever its status, goes on to the
\* update, and the update answers 200 and leaves the order with the
\* requested status.
C38_AnyTransition ==
    [][/\ (orderOp.pc = "idle" /\ orderOp' # orderOp
           /\ orderOp'.status \in FiveStatuses
           /\ orderOp'.id \in DOMAIN orders) =>
             orderOp'.pc = "update"
       /\ (orderOp.pc = "update" /\ orderOp'.pc = "idle"
           /\ orderOp.id \in DOMAIN orders) =>
             /\ orderOp'.out = 200
             /\ orders'[orderOp.id].status = orderOp.status
      ]_vars

\* An order that was read as delivered has been set back to pending.
C38_Witness ==
    /\ orderOp.pc = "idle" /\ orderOp.out = 200
    /\ orderOp.was = "delivered" /\ orderOp.status = "pending"
    /\ orderOp.id \in DOMAIN orders
    /\ orders[orderOp.id].status = "pending"

\* C31: Catalog read paths are active-only. After any sequence of create,
\* update, deactivate and restock, every flower in an answer of the catalog
\* listing or of the single-flower lookup is active when the answer is
\* given, and the single lookup answers 404 for an inactive flower.
C31_ActiveOnly ==
    [][(view' # view /\ view'.kind \in {"flowers", "flower"}) =>
          /\ \A x \in view'.body :
                /\ x.active
                /\ x.id \in DOMAIN flowers /\ flowers[x.id].active
          /\ (view'.kind = "flower" /\ view'.id \in DOMAIN flowers
              /\ ~flowers[view'.id].active) => view'.out = 404
      ]_vars

\* After a deactivation the listing has answered with some flower and
\* without an inactive one that passes its filter.
C31_Witness ==
    /\ view.kind = "flowers" /\ view.body # {}
    /\ \E f \in DOMAIN flowers :
          /\ ~flowers[f].active /\ flowers[f].price >= view.id
          /\ f \notin {x.id : x \in view.body}
    /\ ops > 0

\* The responses a call has sent: one once an answer is chosen and the
\* handler has ended, none when it ended in a rejection nothing caught.
Responses(c) ==
    IF Done(c) /\ call[c].out \notin {"none", "no_response"} THEN 1 ELSE 0

\* C32: Every call, on either path, sends exactly one response, under every
\* interleaving and wherever a database call throws, a commit and a rollback
\* included: a call whose handler has ended has sent one response.
C32_OneResponse ==
    \A c \in Calls : Done(c) => Responses(c) = 1

\* C33: Two concurrent calls that reserve overlapping flowers in reversed
\* order both finish: every call that has started reaches the end of its
\* handler with a response sent (a success or an error), whatever the other
\* call holds.
C33_BothFinish ==
    \A c \in Calls : (call[c].pc # "idle") ~> (Done(c) /\ Responses(c) = 1)

\* Two staff calls took flowers 1 and 2 in opposite orders, one of them was
\* failed out of the deadlock, and both have ended.
C33_Witness ==
    /\ \A c \in Calls : Done(c) /\ call[c].path = "staff"
    /\ \E c \in Calls : call[c].err = "deadlock" /\ Status(call[c].out) = 500
    /\ \E c \in Calls : call[c].out = "created"
    /\ \E c, d \in Calls :
          /\ call[c].cart = <<Item(1, 1), Item(2, 1)>>
          /\ call[d].cart = <<Item(2, 1), Item(1, 1)>>

\* C34: Restock is not lost under concurrency. When one restock of delta d
\* on a flower has been answered 200, one call has been answered 201 for
\* quantity q of it (0 when its cart does not name it) and nothing else has
\* written the catalog, the flower's stock is its first stock + d - q.
C34_RestockNotLost ==
    (/\ Done(1) /\ call[1].out = "created"
     /\ restock.pc = "idle" /\ restock.out = 200
     /\ ops = 1) =>
        flowers[restock.id].stock =
            hist.stock0[restock.id] + restock.delta
                - CartQty(call[1].cart, restock.id)

\* C35: No order commits an order item for a flower after the flower's
\* deactivation has taken effect: at the step that commits a call's
\* transaction, every flower of the order items it commits is active.
C35_NoItemAfterDeactivation ==
    [][\A c \in Calls :
          (call[c].pc = "commit" /\ call'[c].pc = "refetch") =>
              \A r \in tx[c].items : flowers[r.flowerId].active
      ]_vars

\* Both calls are the customer New's, who had no profile, and have ended.
BothNew == \A c \in Calls : Done(c) /\ call[c].path = "shop" /\ call[c].email = New

\* The committed orders of the calls.
CommittedOf == {call[c].orderId : c \in Calls} \cap DOMAIN orders

\* C36 as stated: when the same principal with no profile has placed two
\* orders concurrently, exactly one customer row has that email and every
\* committed order of the two refers to it.
C36_Original ==
    BothNew =>
        /\ Cardinality(ProfilesOf(New)) = 1
        /\ \A o \in CommittedOf : orders[o].customerId \in ProfilesOf(New)

\* C36: At most one customer row has a given email at any time; when the
\* same principal with no profile has placed two orders concurrently and at
\* least one of them is committed, exactly one customer row has that email
\* and every committed order of the two refers to it; when neither is
\* committed, no row has it.
C36_OneProfile ==
    /\ \A e \in Emails : Cardinality(ProfilesOf(e)) <= 1
    /\ BothNew =>
          /\ \A o \in CommittedOf : orders[o].customerId \in ProfilesOf(New)
          /\ Cardinality(ProfilesOf(New)) = IF CommittedOf = {} THEN 0 ELSE 1

\* Both of New's calls were answered 201 and their two orders refer to the
\* one row with that email.
C36_Witness ==
    /\ BothNew
    /\ \A c \in Calls : call[c].out = "created"
    /\ Cardinality(CommittedOf) = 2
    /\ Cardinality(ProfilesOf(New)) = 1
    /\ \A o \in CommittedOf : orders[o].customerId \in ProfilesOf(New)

====
